---- MODULE Spec2Model ----
(***************************************************************************)
(* Model of the documentation tool of src/main.py: the Search Client       *)
(* (search_serper), the Scrape Client (scrape_documentation) and the       *)
(* Orchestrator (get_documentation).  Python strings are TLA+ strings,     *)
(* handled character by character with Len, SubSeq and \o.  A call that    *)
(* may raise yields a record [raised, msg, value].                         *)
(***************************************************************************)
EXTENDS Integers, Sequences, FiniteSets, TLC

VARIABLES
    SERPER_API_KEY,   \* the module constant read from the environment; "" when unset
    pc,               \* where the running call stands: idle, await_search, gather, await_scrape, returned
    query,            \* argument query
    library,          \* argument library
    arg_max_results,  \* argument max_results / num_results as the caller passed it
    max_results,      \* the local max_results after line 152
    url,              \* argument url of a direct scrape_documentation call
    http_log,         \* the HTTP POSTs issued so far, in order
    search_reply,     \* the provider's answer to the search POST
    search_outcome,   \* how the search_serper call ended: none, returned, raised
    search_results,   \* the list search_serper returned
    task,             \* state of each scrape coroutine: created, sent, done
    scrape_io,        \* what each scrape coroutine was answered and what it produced
    scraped_contents, \* the slots of asyncio.gather's result list
    completed,        \* the scrape coroutines in the order they finished
    result,           \* the value returned to the caller
    escaped           \* TRUE when an exception left the called function

vars == <<SERPER_API_KEY, pc, query, library, arg_max_results, max_results, url,
          http_log, search_reply, search_outcome, search_results, task, scrape_io,
          scraped_contents, completed, result, escaped>>

----------------------------------------------------------------------------
(* Bounds of the model *)

\* provider "organic" lists have at most this many entries
MaxOrganic == 2
\* max_results / num_results arguments range over -1 .. MaxArg
MaxArg == 5
\* scraped contents have lengths within MaxDelta of the truncation limit
MaxDelta == 3

(* Program constants *)

ContentLimit == 5000

SERPER_SEARCH_URL == "https://google.serper.dev/search"
SERPER_SCRAPE_URL == "https://scrape.serper.dev"
TruncationMarker == "\n\n... [Content truncated for length]"

Libraries == {"llamaindex", "langchain"}
ALLOWED_DOMAINS == [l \in Libraries |->
                      IF l = "llamaindex" THEN "docs.llamaindex.ai"
                                          ELSE "python.langchain.com"]

----------------------------------------------------------------------------
(* Python built-ins on strings, dicts and integers *)

Min(a, b) == IF a < b THEN a ELSE b
Max(a, b) == IF a > b THEN a ELSE b

Char(s, i) == SubSeq(s, i, i)

Whitespace == {" ", "\t", "\n", "\r"}

\* str.strip(): drop leading and trailing whitespace
RECURSIVE LStrip(_)
LStrip(s) == IF Len(s) > 0 /\ Char(s, 1) \in Whitespace
             THEN LStrip(SubSeq(s, 2, Len(s))) ELSE s
RECURSIVE RStrip(_)
RStrip(s) == IF Len(s) > 0 /\ Char(s, Len(s)) \in Whitespace
             THEN RStrip(SubSeq(s, 1, Len(s) - 1)) ELSE s
Strip(s) == RStrip(LStrip(s))

LowerLetters == "abcdefghijklmnopqrstuvwxyz"
UpperLetters == "ABCDEFGHIJKLMNOPQRSTUVWXYZ"
IndexIn(c, letters) ==
    LET idx == {i \in 1..Len(letters) : Char(letters, i) = c}
    IN  IF idx = {} THEN 0 ELSE CHOOSE i \in idx : TRUE
ToUpper(c) == LET i == IndexIn(c, LowerLetters)
              IN IF i = 0 THEN c ELSE Char(UpperLetters, i)
ToLower(c) == LET i == IndexIn(c, UpperLetters)
              IN IF i = 0 THEN c ELSE Char(LowerLetters, i)
RECURSIVE LowerAll(_)
LowerAll(s) == IF s = "" THEN ""
               ELSE ToLower(Char(s, 1)) \o LowerAll(SubSeq(s, 2, Len(s)))
\* str.capitalize(): first character upper-cased, the rest lower-cased
Capitalize(s) == IF s = "" THEN ""
                 ELSE ToUpper(Char(s, 1)) \o LowerAll(SubSeq(s, 2, Len(s)))

\* dict.get(key, default)
Get(d, key, default) == IF key \in DOMAIN d THEN d[key] ELSE default

\* s.find of any character of chars at (1-based) position >= from; Len(s)+1 when none
FindAny(s, chars, from) ==
    LET idx == {i \in from..Len(s) : Char(s, i) \in chars}
    IN  IF idx = {} THEN Len(s) + 1
        ELSE CHOOSE i \in idx : \A j \in idx : i <= j

SchemeChars == {Char(LowerLetters, i) : i \in 1..26} \cup
               {Char(UpperLetters, i) : i \in 1..26} \cup
               {"0", "1", "2", "3", "4", "5", "6", "7", "8", "9", "+", "-", "."}
Alpha == {Char(LowerLetters, i) : i \in 1..26} \cup {Char(UpperLetters, i) : i \in 1..26}

\* urllib.parse.urlsplit: what is left of the url once a leading scheme is removed
AfterScheme(u) ==
    LET i == FindAny(u, {":"}, 1)
    IN  IF /\ i <= Len(u)
           /\ i > 1
           /\ Char(u, 1) \in Alpha
           /\ \A k \in 1..(i - 1) : Char(u, k) \in SchemeChars
        THEN SubSeq(u, i + 1, Len(u))
        ELSE u

\* urllib.parse.urlparse(u).netloc: the text between a leading "//" and the
\* next "/", "?" or "#"; empty when the url (after its scheme) has no "//"
Netloc(u) ==
    LET rest == AfterScheme(u)
    IN  IF Len(rest) >= 2 /\ SubSeq(rest, 1, 2) = "//"
        THEN SubSeq(rest, 3, FindAny(rest, {"/", "?", "#"}, 3) - 1)
        ELSE ""

HasChar(s, c) == \E i \in 1..Len(s) : Char(s, i) = c
\* urlsplit raises ValueError("Invalid IPv6 URL") on an unbalanced bracket in the netloc
UrlParseRaises(u) ==
    LET n == Netloc(u)
    IN  (HasChar(n, "[") /\ ~HasChar(n, "]")) \/ (HasChar(n, "]") /\ ~HasChar(n, "["))

Returned(v) == [raised |-> FALSE, msg |-> "", value |-> v]
Raised(m)   == [raised |-> TRUE, msg |-> m, value |-> <<>>]
----------------------------------------------------------------------------
(* What the provider may answer *)

EmptyDict == [k \in {} |-> ""]

\* entries of the provider's "organic" list; title, link and snippet are optional
OrganicEntries ==
    { [title |-> "Vector stores", link |-> "https://docs.llamaindex.ai/vector",
       snippet |-> "How to use vector stores"],
      [link |-> "https://docs.llamaindex.ai"],
      [title |-> "Blog", link |-> "https://blog.docs.llamaindex.ai/post",
       snippet |-> "A blog post"],
      [title |-> "Evil", link |-> "https://evil.com/docs.llamaindex.ai",
       snippet |-> "Domain in the path"],
      [title |-> "No link", snippet |-> "An entry without a link"],
      [title |-> "Chat models", link |-> "https://python.langchain.com/docs?q=1",
       snippet |-> "How to use chat models"],
      [title |-> "Userinfo", link |-> "https://docs.llamaindex.ai@evil.com/",
       snippet |-> "Domain as userinfo"],
      [title |-> "Bracket", link |-> "https://[docs.llamaindex.ai/x"] }

OrganicLists == UNION {[1..n -> OrganicEntries] : n \in 0..MaxOrganic}

NoReply == [kind |-> "none", status |-> 0, text |-> "", data |-> EmptyDict]

\* kind ok: a 2xx response whose body parsed to data; kind status: a non-2xx
\* response; kind exc: a transport or JSON failure raised inside the try block
SearchReplies ==
    {[kind |-> "ok", status |-> 200, text |-> "", data |-> [organic |-> o]] :
        o \in OrganicLists}
    \cup {[kind |-> "ok", status |-> 200, text |-> "", data |-> [credits |-> 1]]}
    \cup {[kind |-> "status", status |-> 500, text |-> "Internal error", data |-> EmptyDict],
          [kind |-> "status", status |-> 403, text |-> "Unauthorized.", data |-> EmptyDict],
          [kind |-> "exc", status |-> 0, text |-> "timed out", data |-> EmptyDict]}

----------------------------------------------------------------------------
(* Search Client: search_serper *)

SearchQuery(q, lib) == "(" \o q \o ") AND (" \o "site:" \o ALLOWED_DOMAINS[lib] \o ")"

\* the "num" field of the request body
PayloadNumUncapped(n) == n
PayloadNum(n) == Min(n, 2)

\* lines 41-56: the request search_serper sends, or the ValueError of a missing key
SearchRequest(q, lib, n) ==
    IF SERPER_API_KEY = ""
    THEN Raised("SERPER_API_KEY environment variable not set")
    ELSE Returned([endpoint |-> SERPER_SEARCH_URL, q |-> SearchQuery(q, lib),
                   num |-> PayloadNum(n), url |-> ""])

\* the domain check of line 75
KeepEntrySubstring(entry, lib) ==
    LET link == Get(entry, "link", "")
        dom  == ALLOWED_DOMAINS[lib]
    IN  \E i \in 1..(Len(link) - Len(dom) + 1) : SubSeq(link, i, i + Len(dom) - 1) = dom
KeepEntry(entry, lib) == Netloc(Get(entry, "link", "")) = ALLOWED_DOMAINS[lib]

ToResult(entry) == [title   |-> Get(entry, "title", "No title"),
                    link    |-> Get(entry, "link", ""),
                    snippet |-> Get(entry, "snippet", "No snippet available")]

\* the loop of lines 69-82 over the organic list
RECURSIVE CollectResults(_, _)
CollectResults(organic, lib) ==
    IF organic = <<>> THEN <<>>
    ELSE (IF KeepEntry(Head(organic), lib) THEN <<ToResult(Head(organic))>> ELSE <<>>)
         \o CollectResults(Tail(organic), lib)

\* lines 66-87: what search_serper makes of the provider's answer
SearchProcess(lib, reply) ==
    IF reply.kind = "status"
    THEN Raised("Serper API error: " \o ToString(reply.status) \o " - " \o reply.text)
    ELSE IF reply.kind = "exc"
    THEN Raised("Search request failed: " \o reply.text)
    ELSE LET organic == Get(reply.data, "organic", <<>>)
         IN  IF \E i \in 1..Len(organic) : UrlParseRaises(Get(organic[i], "link", ""))
             THEN Raised("Search request failed: " \o "Invalid IPv6 URL")
             ELSE Returned(CollectResults(organic, lib))

----------------------------------------------------------------------------
(* Inputs *)

Queries == {"", " \t ", "vector store"}
DirectQueries == {"vector store"}
LibraryArgs == Libraries \cup {"pytorch", "LlamaIndex"}
IntArgs == (0 - 1)..MaxArg

Init ==
    /\ SERPER_API_KEY \in {"", "test-key"}
    /\ pc = "idle"
    /\ query = ""
    /\ library = ""
    /\ arg_max_results = 0
    /\ max_results = 0
    /\ url = ""
    /\ http_log = <<>>
    /\ search_reply = NoReply
    /\ search_outcome = "none"
    /\ search_results = <<>>
    /\ task = <<>>
    /\ scrape_io = <<>>
    /\ scraped_contents = <<>>
    /\ completed = <<>>
    /\ result = ""
    /\ escaped = FALSE

----------------------------------------------------------------------------
(* A direct call of the Search Client *)

SearchCall(q, lib, n) ==
    /\ pc = "idle"
    /\ query' = q
    /\ library' = lib
    /\ arg_max_results' = n
    /\ LET req == SearchRequest(q, lib, n)
       IN  IF req.raised
           THEN /\ pc' = "returned"
                /\ escaped' = TRUE
                /\ result' = req.msg
                /\ search_outcome' = "raised"
                /\ http_log' = http_log
           ELSE /\ pc' = "await_search"
                /\ http_log' = Append(http_log, req.value)
                /\ UNCHANGED <<escaped, result, search_outcome>>
    /\ UNCHANGED <<SERPER_API_KEY, max_results, url, search_reply, search_results,
                   task, scrape_io, scraped_contents, completed>>

SearchReturn(reply) ==
    /\ pc = "await_search"
    /\ search_reply' = reply
    /\ pc' = "returned"
    /\ LET r == SearchProcess(library, reply)
       IN  IF r.raised
           THEN /\ escaped' = TRUE
                /\ result' = r.msg
                /\ search_outcome' = "raised"
                /\ UNCHANGED search_results
           ELSE /\ search_results' = r.value
                /\ search_outcome' = "returned"
                /\ UNCHANGED <<escaped, result>>
    /\ UNCHANGED <<SERPER_API_KEY, query, library, arg_max_results, max_results, url,
                   http_log, task, scrape_io, scraped_contents, completed>>

NextSearch ==
    \/ pc = "idle" /\ \E q \in DirectQueries, lib \in Libraries, n \in IntArgs :
                        SearchCall(q, lib, n)
    \/ pc = "await_search" /\ \E reply \in SearchReplies : SearchReturn(reply)

SpecSearch == Init /\ [][NextSearch]_vars
----------------------------------------------------------------------------
(* Scrape Client: scrape_documentation *)

RECURSIVE Rep(_, _)
Rep(c, n) == IF n <= 0 THEN ""
             ELSE LET h == Rep(c, n \div 2)
                  IN  IF n % 2 = 1 THEN h \o h \o c ELSE h \o h

\* page contents around the truncation limit, marked at their start or at their end
LongContents ==
    {Rep("a", n - 1) \o "z" : n \in (ContentLimit - MaxDelta)..(ContentLimit + MaxDelta)}
    \cup {"z" \o Rep("a", n - 1) : n \in (ContentLimit - MaxDelta)..(ContentLimit + MaxDelta)}
ShortContents == {"", "# Vector stores\nUse an index."}

ScrapeFailures ==
    {[kind |-> "status", status |-> 500, text |-> "Internal error", data |-> EmptyDict],
     [kind |-> "status", status |-> 404, text |-> "Not found", data |-> EmptyDict],
     [kind |-> "exc", status |-> 0, text |-> "timed out", data |-> EmptyDict]}

\* answers to a direct scrape call: markdown only, text only, both, neither
DirectScrapeReplies ==
    {[kind |-> "ok", status |-> 200, text |-> "", data |-> d] :
        d \in {[markdown |-> c] : c \in LongContents \cup ShortContents}
              \cup {[text |-> c] : c \in LongContents \cup ShortContents}
              \cup {[markdown |-> c, text |-> "plain text"] :
                       c \in LongContents \cup ShortContents}
              \cup {[credits |-> 2]}}
    \cup ScrapeFailures

\* answers to the scrape of page u within get_documentation
ScrapeRepliesFor(u) ==
    {[kind |-> "ok", status |-> 200, text |-> "",
      data |-> [markdown |-> "# Page " \o u \o "\nBody"]],
     [kind |-> "status", status |-> 500, text |-> "Internal error", data |-> EmptyDict],
     [kind |-> "exc", status |-> 0, text |-> "timed out", data |-> EmptyDict]}

\* lines 124-125
TruncateAtOrAbove(content) ==
    IF Len(content) >= ContentLimit
    THEN SubSeq(content, 1, ContentLimit) \o TruncationMarker
    ELSE content
Truncate(content) ==
    IF Len(content) > ContentLimit
    THEN SubSeq(content, 1, ContentLimit) \o TruncationMarker
    ELSE content

\* lines 117-132: the string scrape_documentation returns for the provider's answer
scrape_documentation(u, reply) ==
    IF reply.kind = "status"
    THEN "Error scraping " \o u \o ": HTTP " \o ToString(reply.status)
    ELSE IF reply.kind = "exc"
    THEN "Error scraping " \o u \o ": " \o reply.text
    ELSE Truncate(Get(reply.data, "markdown",
                      Get(reply.data, "text", "No content available")))

ScrapeRequest(u) == [endpoint |-> SERPER_SCRAPE_URL, q |-> "", num |-> 0, url |-> u]

(* A direct call of the Scrape Client *)

ScrapeUrls == {"https://docs.llamaindex.ai/vector", "https://python.langchain.com/docs?q=1"}

ScrapeCall(u) ==
    /\ pc = "idle"
    /\ url' = u
    /\ http_log' = Append(http_log, ScrapeRequest(u))
    /\ pc' = "await_scrape"
    /\ UNCHANGED <<SERPER_API_KEY, query, library, arg_max_results, max_results,
                   search_reply, search_outcome, search_results, task, scrape_io, scraped_contents, completed,
                   result, escaped>>

ScrapeReturn(reply) ==
    /\ pc = "await_scrape"
    /\ result' = scrape_documentation(url, reply)
    /\ scrape_io' = <<[reply |-> reply, exc |-> FALSE,
                       out |-> scrape_documentation(url, reply)]>>
    /\ pc' = "returned"
    /\ UNCHANGED <<SERPER_API_KEY, query, library, arg_max_results, max_results, url,
                   http_log, search_reply, search_outcome, search_results, task, scraped_contents, completed,
                   escaped>>

NextScrape ==
    \/ pc = "idle" /\ \E u \in ScrapeUrls : ScrapeCall(u)
    \/ pc = "await_scrape" /\ \E reply \in DirectScrapeReplies : ScrapeReturn(reply)

SpecScrape == Init /\ [][NextScrape]_vars
----------------------------------------------------------------------------
(* Orchestrator: get_documentation *)

\* line 152
ClampUpperOnly(m) == Min(m, 2)
Clamp(m) == Max(1, Min(m, 2))

EmptyQueryMessage == "Error: Query cannot be empty"
InvalidLibraryMessage == "Error: Invalid library. Choose either 'llamaindex' or 'langchain'"

\* lines 154-158: the message of the first failed check, "" when both pass
ValidateNoStrip(q, lib) ==
    IF q = "" THEN EmptyQueryMessage
    ELSE IF lib \notin DOMAIN ALLOWED_DOMAINS THEN InvalidLibraryMessage
    ELSE ""
Validate(q, lib) ==
    IF Strip(q) = "" THEN EmptyQueryMessage
    ELSE IF lib \notin DOMAIN ALLOWED_DOMAINS THEN InvalidLibraryMessage
    ELSE ""

\* lines 209-210: the handler around the whole body
TopLevelReraise(m) == [escaped |-> TRUE, result |-> m]
TopLevelHandler(m) == [escaped |-> FALSE, result |-> "Error retrieving documentation: " \o m]

\* line 164
NoResultsNever(results) == FALSE
NoResults(results) == results = <<>>

\* line 165
NoDocumentationMessage(q, lib) ==
    "No documentation found for query: '" \o q \o "' in " \o lib \o " documentation"

PendingSlot == [done |-> FALSE, exc |-> FALSE, val |-> ""]

\* line 174, asyncio.gather: the outcome of coroutine i goes to slot i
GatherStoreFirstFree(contents, i, slot) ==
    LET k == CHOOSE j \in 1..Len(contents) :
                 ~contents[j].done /\ \A h \in 1..(j - 1) : contents[h].done
    IN  [contents EXCEPT ![k] = slot]
GatherStore(contents, i, slot) == [contents EXCEPT ![i] = slot]

\* line 174, asyncio.gather(..., return_exceptions=True): ready once every
\* coroutine is done, and an exception is a value of the list, never raised
GatherFailFast(contents) ==
    IF \E i \in 1..Len(contents) : contents[i].done /\ contents[i].exc
    THEN [ready |-> TRUE, raised |-> TRUE,
          msg |-> contents[CHOOSE i \in 1..Len(contents) :
                              contents[i].done /\ contents[i].exc].val]
    ELSE [ready |-> \A i \in 1..Len(contents) : contents[i].done,
          raised |-> FALSE, msg |-> ""]
Gather(contents) ==
    [ready |-> \A i \in 1..Len(contents) : contents[i].done,
     raised |-> FALSE, msg |-> ""]

\* lines 177-182
ContentOf(slot) ==
    IF slot.exc THEN "Error scraping content: " \o slot.val ELSE slot.val

\* lines 184-191
DocSection(r, content) ==
    "\n## " \o r.title \o "\n**URL:** " \o r.link \o "\n**Summary:** " \o r.snippet
    \o "\n\n**Content:**\n" \o content \o "\n"

\* lines 176-196: the sections of results i.., joined
RECURSIVE SectionsJoined(_, _, _)
SectionsJoined(results, contents, i) ==
    IF i > Len(results) THEN ""
    ELSE "---" \o DocSection(results[i], ContentOf(contents[i])) \o "\n"
         \o SectionsJoined(results, contents, i + 1)

\* lines 198-205
FinalContent(q, lib, results, contents) ==
    "# Documentation Search Results for: \"" \o q \o "\" in " \o Capitalize(lib)
    \o " Documentation\n\nFound " \o ToString(Len(results))
    \o " relevant documentation pages:\n\n"
    \o SectionsJoined(results, contents, 1)
    \o "\n---\n*Search completed successfully*\n"

\* lines 150-162: validation, then search_serper up to its POST
get_documentation(q, lib, m) ==
    /\ pc = "idle"
    /\ query' = q
    /\ library' = lib
    /\ arg_max_results' = m
    /\ max_results' = Clamp(m)
    /\ IF Validate(q, lib) # ""
       THEN /\ pc' = "returned"
            /\ result' = Validate(q, lib)
            /\ UNCHANGED <<http_log, escaped, search_outcome>>
       ELSE LET req == SearchRequest(q, lib, Clamp(m))
            IN  IF req.raised
                THEN /\ pc' = "returned"
                     /\ result' = TopLevelHandler(req.msg).result
                     /\ escaped' = TopLevelHandler(req.msg).escaped
                     /\ search_outcome' = "raised"
                     /\ UNCHANGED http_log
                ELSE /\ pc' = "await_search"
                     /\ http_log' = Append(http_log, req.value)
                     /\ UNCHANGED <<result, escaped, search_outcome>>
    /\ UNCHANGED <<SERPER_API_KEY, url, search_reply, search_results, task, scrape_io,
                   scraped_contents, completed>>

\* lines 162-174: search_serper resumes with the provider's answer; the scrape
\* coroutines are created when there are results
SearchResponse(reply) ==
    /\ pc = "await_search"
    /\ search_reply' = [reply EXCEPT !.data = EmptyDict]
    /\ LET r == SearchProcess(library, reply)
       IN  IF r.raised
           THEN /\ pc' = "returned"
                /\ result' = TopLevelHandler(r.msg).result
                /\ escaped' = TopLevelHandler(r.msg).escaped
                /\ search_outcome' = "raised"
                /\ UNCHANGED <<search_results, task, scrape_io, scraped_contents>>
           ELSE /\ search_results' = r.value
                /\ search_outcome' = "returned"
                /\ IF NoResults(r.value)
                   THEN /\ pc' = "returned"
                        /\ result' = NoDocumentationMessage(query, library)
                        /\ UNCHANGED <<task, scrape_io, scraped_contents, escaped>>
                   ELSE /\ pc' = "gather"
                        /\ task' = [i \in 1..Len(r.value) |-> "created"]
                        /\ scraped_contents' = [i \in 1..Len(r.value) |-> PendingSlot]
                        /\ scrape_io' = [i \in 1..Len(r.value) |->
                                           [reply |-> NoReply, exc |-> FALSE, out |-> ""]]
                        /\ UNCHANGED <<result, escaped>>
    /\ UNCHANGED <<SERPER_API_KEY, query, library, arg_max_results, max_results, url,
                   http_log, completed>>

\* lines 109-116: coroutine i sends its POST
ScrapeSend(i) ==
    /\ pc = "gather"
    /\ task[i] = "created"
    /\ task' = [task EXCEPT ![i] = "sent"]
    /\ http_log' = Append(http_log, ScrapeRequest(search_results[i].link))
    /\ UNCHANGED <<SERPER_API_KEY, pc, query, library, arg_max_results, max_results, url,
                   search_reply, search_outcome, search_results, scrape_io, scraped_contents, completed, result,
                   escaped>>

\* line 109: the client cannot be set up; the exception is raised outside the
\* try block and leaves coroutine i
ScrapeClientError(i) ==
    /\ pc = "gather"
    /\ task[i] = "created"
    /\ task' = [task EXCEPT ![i] = "done"]
    /\ scrape_io' = [scrape_io EXCEPT ![i] =
                        [reply |-> [NoReply EXCEPT !.kind = "escape"], exc |-> TRUE,
                         out |-> "client setup failed"]]
    /\ scraped_contents' = GatherStore(scraped_contents, i,
                              [done |-> TRUE, exc |-> TRUE, val |-> "client setup failed"])
    /\ completed' = Append(completed, i)
    /\ UNCHANGED <<SERPER_API_KEY, pc, query, library, arg_max_results, max_results, url,
                   http_log, search_reply, search_outcome, search_results, result, escaped>>

\* lines 117-132: coroutine i gets its answer and returns its string
ScrapeResponse(i, reply) ==
    /\ pc = "gather"
    /\ task[i] = "sent"
    /\ task' = [task EXCEPT ![i] = "done"]
    /\ LET out == scrape_documentation(search_results[i].link, reply)
       IN  /\ scrape_io' = [scrape_io EXCEPT ![i] =
                               [reply |-> reply, exc |-> FALSE, out |-> out]]
           /\ scraped_contents' = GatherStore(scraped_contents, i,
                                     [done |-> TRUE, exc |-> FALSE, val |-> out])
    /\ completed' = Append(completed, i)
    /\ UNCHANGED <<SERPER_API_KEY, pc, query, library, arg_max_results, max_results, url,
                   http_log, search_reply, search_outcome, search_results, result, escaped>>

\* lines 174-207: gather returns, the report is assembled and returned
GatherReturn ==
    /\ pc = "gather"
    /\ Gather(scraped_contents).ready
    /\ pc' = "returned"
    /\ IF Gather(scraped_contents).raised
       THEN /\ result' = TopLevelHandler(Gather(scraped_contents).msg).result
            /\ escaped' = TopLevelHandler(Gather(scraped_contents).msg).escaped
       ELSE /\ result' = FinalContent(query, library, search_results, scraped_contents)
            /\ UNCHANGED escaped
    /\ UNCHANGED <<SERPER_API_KEY, query, library, arg_max_results, max_results, url,
                   http_log, search_reply, search_outcome, search_results, task, scrape_io,
                   scraped_contents, completed>>

Next ==
    \/ pc = "idle" /\ \E q \in Queries, lib \in LibraryArgs, m \in IntArgs :
                        get_documentation(q, lib, m)
    \/ pc = "await_search" /\ \E reply \in SearchReplies : SearchResponse(reply)
    \/ \E i \in DOMAIN task : ScrapeSend(i)
    \/ \E i \in DOMAIN task : ScrapeClientError(i)
    \/ \E i \in DOMAIN task :
          pc = "gather" /\ task[i] = "sent"
          /\ \E reply \in ScrapeRepliesFor(search_results[i].link) : ScrapeResponse(i, reply)
    \/ GatherReturn

Spec == Init /\ [][Next]_vars
----------------------------------------------------------------------------
(* Properties *)

StartsWith(s, p) == Len(s) >= Len(p) /\ SubSeq(s, 1, Len(p)) = p
\* the positions of s at which p (not empty) occurs
Occurrences(s, p) ==
    {i \in 1..(Len(s) - Len(p) + 1) :
        Char(s, i) = Char(p, 1) /\ SubSeq(s, i, i + Len(p) - 1) = p}
Contains(s, p) ==
    \E i \in 1..(Len(s) - Len(p) + 1) :
       Char(s, i) = Char(p, 1) /\ SubSeq(s, i, i + Len(p) - 1) = p

SearchPosts == {i \in 1..Len(http_log) : http_log[i].endpoint = "https://google.serper.dev/search"}
ScrapePosts == {i \in 1..Len(http_log) : http_log[i].endpoint = "https://scrape.serper.dev"}

ValidInput == \E i \in 1..Len(query) : Char(query, i) \notin {" ", "\t", "\n", "\r"}
ValidLibrary == library \in {"llamaindex", "langchain"}

\* C1: get_documentation always ends by returning a string: no exception ever
\* leaves it, once every scrape coroutine is done every slot of the gathered
\* list is filled (so the gather returns and the report follows), and a failed
\* search (non-2xx answer, transport or parse failure, missing API key)
\* is returned as "Error retrieving documentation: <message>".
C1_AlwaysReturnsString ==
    /\ ~escaped
    /\ result \in STRING
    /\ (pc = "gather" /\ \A i \in DOMAIN task : task[i] = "done") =>
          \A i \in DOMAIN scraped_contents : scraped_contents[i].done
    /\ (pc = "returned" /\ search_reply.kind = "status") =>
          result = "Error retrieving documentation: Serper API error: "
                   \o ToString(search_reply.status) \o " - " \o search_reply.text
    /\ (pc = "returned" /\ search_reply.kind = "exc") =>
          result = "Error retrieving documentation: Search request failed: "
                   \o search_reply.text
    /\ (pc = "returned" /\ search_outcome = "raised") =>
          StartsWith(result, "Error retrieving documentation: ")
    /\ (pc = "returned" /\ ValidInput /\ ValidLibrary /\ SERPER_API_KEY = "") =>
          result = "Error retrieving documentation: SERPER_API_KEY environment variable not set"

C1_Witness ==
    /\ pc = "returned"
    /\ search_reply.kind = "status"
    /\ result = "Error retrieving documentation: Serper API error: 500 - Internal error"

\* C2: on invalid input no HTTP call is made and a fixed message is returned:
\* the empty-query message when the query is empty or all whitespace (whatever
\* the library), otherwise the invalid-library message when the library is
\* neither llamaindex nor langchain.
C2_InvalidInput ==
    pc # "idle" =>
       /\ ~ValidInput =>
             /\ pc = "returned"
             /\ result = "Error: Query cannot be empty"
             /\ http_log = <<>>
       /\ (ValidInput /\ ~ValidLibrary) =>
             /\ pc = "returned"
             /\ result = "Error: Invalid library. Choose either 'llamaindex' or 'langchain'"
             /\ http_log = <<>>

C2_Witness ==
    /\ pc = "returned"
    /\ query = " \t "
    /\ library = "pytorch"
    /\ result = "Error: Query cannot be empty"
    /\ http_log = <<>>

\* C8: max_results is clamped to [1,2] (an argument of at most 1 gives 1, one
\* of 2 or more gives 2), and the clamped value is the "num" of the search
\* request, which is therefore 1 or 2.
C8_ClampedNum ==
    pc # "idle" =>
       /\ max_results = (IF arg_max_results <= 1 THEN 1 ELSE 2)
       /\ \A i \in SearchPosts : http_log[i].num = max_results /\ http_log[i].num \in {1, 2}

C8_Witness ==
    /\ arg_max_results = 0 - 1
    /\ SearchPosts # {}
    /\ \A i \in SearchPosts : http_log[i].num = 1

\* C9: at most one search call, and it precedes every scrape call: a scrape is
\* sent only after the search returned a non-empty list.  A failed search or a
\* missing key gives no scrape call and the "Error retrieving documentation: "
\* string; an empty result list gives no scrape call and the exact
\* "No documentation found" message.
C9_SearchBeforeScrape ==
    /\ Cardinality(SearchPosts) <= 1
    /\ \A i \in ScrapePosts :
          /\ 1 \in SearchPosts
          /\ i > 1
          /\ search_outcome = "returned"
          /\ search_results # <<>>
    /\ (pc = "returned" /\ search_outcome = "raised") =>
          /\ ScrapePosts = {}
          /\ StartsWith(result, "Error retrieving documentation: ")
    /\ (search_outcome = "raised" /\ SERPER_API_KEY = "") => http_log = <<>>
    /\ (search_outcome = "returned" /\ search_results = <<>>) =>
          /\ pc = "returned"
          /\ ScrapePosts = {}
          /\ result = "No documentation found for query: '" \o query \o "' in "
                      \o library \o " documentation"

C9_Witness ==
    /\ pc = "returned"
    /\ search_outcome = "returned"
    /\ search_results = <<>>
    /\ Len(http_log) = 1
    /\ result = "No documentation found for query: 'vector store' in llamaindex documentation"

\* C3: the list the Search Client returns has at most the requested maximum
\* number of entries, so there are never more than two scrape calls.
C3_ResultsWithinMax ==
    search_outcome = "returned" =>
       /\ Len(search_results) <= max_results
       /\ Cardinality(ScrapePosts) <= 2
\* what the page of result i was answered, as the text its section must show
ExpectedContent(i) ==
    LET link == search_results[i].link
        kind == scrape_io[i].reply.kind
    IN  IF kind = "ok" THEN "# Page " \o link \o "\nBody"
        ELSE IF kind = "status"
        THEN "Error scraping " \o link \o ": HTTP " \o ToString(scrape_io[i].reply.status)
        ELSE IF kind = "exc"
        THEN "Error scraping " \o link \o ": " \o scrape_io[i].reply.text
        ELSE "Error scraping content: client setup failed"

ExpectedSection(i) ==
    "---\n## " \o search_results[i].title
    \o "\n**URL:** " \o search_results[i].link
    \o "\n**Summary:** " \o search_results[i].snippet
    \o "\n\n**Content:**\n" \o ExpectedContent(i) \o "\n\n"

RECURSIVE ExpectedSections(_)
ExpectedSections(i) ==
    IF i > Len(search_results) THEN ""
    ELSE ExpectedSection(i) \o ExpectedSections(i + 1)

ReportReturned == pc = "returned" /\ search_outcome = "returned" /\ search_results # <<>>

\* C5: whatever the order in which the scrape calls are sent and complete, the
\* report is the header followed by one section per search result in
\* search-result order, section i holding title, link and snippet of result i
\* and the outcome of the scrape of result i's own link.
C5_SectionsInResultOrder ==
    ReportReturned =>
       result = "# Documentation Search Results for: \"" \o query \o "\" in "
                \o (IF library = "llamaindex" THEN "Llamaindex" ELSE "Langchain")
                \o " Documentation\n\nFound " \o ToString(Len(search_results))
                \o " relevant documentation pages:\n\n"
                \o ExpectedSections(1)
                \o "\n---\n*Search completed successfully*\n"

\* the second page completed first, and with another outcome than the first page
C5_Witness ==
    /\ ReportReturned
    /\ completed = <<2, 1>>
    /\ scrape_io[1].reply.kind = "ok"
    /\ scrape_io[2].reply.kind = "status"
    /\ search_results[1].link # search_results[2].link

\* C6: a failed scrape aborts nothing: the request returns only when every
\* scrape coroutine is done, the result is then the report (never the top-level
\* error string), with one section per search result, the header count equal to
\* the number of sections, an error string in the section of each failed scrape
\* and the page's content in the section of each successful one.
C6_ScrapeFailuresIsolated ==
    /\ (pc = "returned" /\ search_results # <<>>) =>
          \A i \in DOMAIN task : task[i] = "done"
    /\ ReportReturned =>
          /\ StartsWith(result, "# Documentation Search Results for: ")
          /\ Cardinality(Occurrences(result, "\n**URL:** ")) = Len(search_results)
          /\ Contains(result, "\n\nFound " \o ToString(Len(search_results))
                              \o " relevant documentation pages:\n\n")
          /\ \A i \in 1..Len(search_results) :
                LET kind == scrape_io[i].reply.kind
                    link == search_results[i].link
                IN  /\ kind = "ok" =>
                          Contains(result, "**URL:** " \o link \o "\n**Summary:** "
                                   \o search_results[i].snippet
                                   \o "\n\n**Content:**\n# Page " \o link \o "\nBody\n")
                    /\ kind \in {"status", "exc"} =>
                          Contains(result, "**Content:**\nError scraping " \o link \o ": ")
                    /\ kind = "escape" =>
                          Contains(result, "**URL:** " \o link \o "\n**Summary:** "
                                   \o search_results[i].snippet
                                   \o "\n\n**Content:**\nError scraping content: ")

\* one page failed first, the other was scraped after that and succeeded
C6_Witness ==
    /\ ReportReturned
    /\ Len(search_results) = 2
    /\ completed = <<1, 2>>
    /\ scrape_io[1].reply.kind = "escape"
    /\ scrape_io[2].reply.kind = "ok"
    /\ Contains(result, "Error scraping content: client setup failed")
    /\ Contains(result, "# Page " \o search_results[2].link \o "\nBody")

----------------------------------------------------------------------------
(* Properties of the Search Client called directly *)

\* the host of a link: the authority after "://" up to the next "/", "?" or
\* "#", without userinfo and port
HostOf(u) ==
    LET starts == Occurrences(u, "://")
    IN  IF starts = {} THEN ""
        ELSE LET a    == (CHOOSE i \in starts : \A j \in starts : i <= j) + 3
                 stop == {i \in a..Len(u) : Char(u, i) \in {"/", "?", "#"}}
                 z    == IF stop = {} THEN Len(u)
                         ELSE (CHOOSE i \in stop : \A j \in stop : i <= j) - 1
                 ats  == {i \in a..z : Char(u, i) = "@"}
                 h    == IF ats = {} THEN a
                         ELSE (CHOOSE i \in ats : \A j \in ats : i >= j) + 1
                 cols == {i \in h..z : Char(u, i) = ":"}
                 e    == IF cols = {} THEN z
                         ELSE (CHOOSE i \in cols : \A j \in cols : i <= j) - 1
             IN  SubSeq(u, h, e)

DomainOf(lib) == IF lib = "llamaindex" THEN "docs.llamaindex.ai" ELSE "python.langchain.com"

ProviderList == IF "organic" \in DOMAIN search_reply.data THEN search_reply.data.organic ELSE <<>>

\* results is taken from the provider's list at strictly increasing positions,
\* each result carrying the fields of the entry it was taken from
TakenInOrder(results, organic) ==
    \E f \in [1..Len(results) -> 1..Len(organic)] :
       /\ \A k \in 1..Len(results) : \A h \in 1..Len(results) : k < h => f[k] < f[h]
       /\ \A k \in 1..Len(results) :
             /\ "link" \in DOMAIN organic[f[k]]
             /\ results[k].link = organic[f[k]].link
             /\ results[k].title = (IF "title" \in DOMAIN organic[f[k]]
                                    THEN organic[f[k]].title ELSE "No title")
             /\ results[k].snippet = (IF "snippet" \in DOMAIN organic[f[k]]
                                      THEN organic[f[k]].snippet
                                      ELSE "No snippet available")

\* C4: every returned result has a link whose host is exactly the domain of
\* the requested library, and the returned list is the provider's list with
\* entries dropped: same relative order, nothing substituted.
C4_OnlyConfiguredHost ==
    search_outcome = "returned" =>
       /\ \A k \in 1..Len(search_results) :
             HostOf(search_results[k].link) = DomainOf(library)
       /\ TakenInOrder(search_results, ProviderList)

\* a subdomain entry is dropped and the entry after it is kept, with the defaults
\* for its missing title and snippet
C4_Witness ==
    /\ search_outcome = "returned"
    /\ library = "llamaindex"
    /\ Len(ProviderList) = 2
    /\ ProviderList[1] = [title |-> "Blog", link |-> "https://blog.docs.llamaindex.ai/post",
                           snippet |-> "A blog post"]
    /\ ProviderList[2] = [link |-> "https://docs.llamaindex.ai"]
    /\ Len(search_results) = 1
    /\ search_results[1] = [title |-> "No title", link |-> "https://docs.llamaindex.ai",
                             snippet |-> "No snippet available"]

\* C10 as stated: the "num" the Search Client sends is 1 or 2 for every
\* integer num_results.
C10_NumIsOneOrTwo ==
    \A i \in SearchPosts : http_log[i].num \in {1, 2}

\* C10 as amended: the Search Client caps num_results from above only: "num"
\* is num_results when that is at most 2 and 2 otherwise, so it is never above
\* 2 and is 1 or 2 exactly when num_results is at least 1.
C10_NumCappedAbove ==
    \A i \in SearchPosts :
       /\ http_log[i].num = (IF arg_max_results <= 2 THEN arg_max_results ELSE 2)
       /\ http_log[i].num <= 2
       /\ http_log[i].num \in {1, 2} <=> arg_max_results >= 1

C10_Witness ==
    /\ arg_max_results = 0
    /\ SearchPosts = {1}
    /\ http_log[1].num = 0

----------------------------------------------------------------------------
(* Properties of the Scrape Client called directly *)

ScrapedContent ==
    LET data == scrape_io[1].reply.data
    IN  IF "markdown" \in DOMAIN data THEN data.markdown
        ELSE IF "text" \in DOMAIN data THEN data.text
        ELSE "No content available"

\* C7: a scraped content longer than 5000 characters is returned as its first
\* 5000 characters followed by the truncation marker; one of at most 5000
\* characters (5000 included) is returned unchanged.
C7_TruncateAboveLimit ==
    (pc = "returned" /\ scrape_io[1].reply.kind = "ok") =>
       IF Len(ScrapedContent) > 5000
       THEN /\ Len(result) = 5000 + Len("\n\n... [Content truncated for length]")
            /\ SubSeq(result, 1, 5000) = SubSeq(ScrapedContent, 1, 5000)
            /\ SubSeq(result, 5001, Len(result)) = "\n\n... [Content truncated for length]"
       ELSE result = ScrapedContent

C7_Witness ==
    /\ pc = "returned"
    /\ scrape_io[1].reply.kind = "ok"
    /\ Len(ScrapedContent) = 5001
    /\ Len(result) = 5036
    /\ Char(result, 1) = "z"

====
